---- MODULE Spec2Model ----
(***************************************************************************)
(* Production-chain resolution of ResourceTreeService                      *)
(* (generateResourceTree and the private helpers it calls).                *)
(*                                                                         *)
(* A string is a sequence of one-character strings, so that toLowerCase    *)
(* is computed character by character.  A ratio is kept in hundredths      *)
(* (ratio 100 is the number 1.0): every ratio the service stores is        *)
(* Math.round(v * 100) / 100.                                              *)
(***************************************************************************)
EXTENDS Integers, Sequences, FiniteSets, TLC

VARIABLES
    registry,               \* industryService.getAllBuildings()
    pc,                     \* position inside generateResourceTree
    calls,                  \* completed invocations of generateResourceTree
    finalProductBuildings,  \* buildProductionChains: the roots
    rootIndex,              \* buildProductionChains: forEach position
    chains,                 \* buildProductionChains: chains
    processedBuildings,     \* buildProductionChains: Set<string>
    finalBuilding,          \* traceSupplyChain: parameter
    buildingQueue,          \* traceSupplyChain: buildingQueue
    chainProcessed,         \* traceSupplyChain: Set<string>
    chainBuildings,         \* traceSupplyChain: chainBuildings
    ratioPending,           \* calculateChainRatios: the buildings its loops
                            \* have still to visit, as indices of chainBuildings
    tree,                   \* the ResourceTree returned last
    previousTree            \* the ResourceTree returned by the call before

vars == <<registry, pc, calls, finalProductBuildings, rootIndex, chains,
          processedBuildings, finalBuilding, buildingQueue, chainProcessed,
          chainBuildings, ratioPending, tree, previousTree>>

----------------------------------------------------------------------------
(* Bounds of the model *)

MaxBuildings == 3
MaxInputs == 2
MaxOutputs == 1
MaxCalls == 2

(* Program constants *)

levelSpacing == 200
buildingSpacing == 150

undefined == "undefined"

----------------------------------------------------------------------------
(* Strings *)

RECURSIVE Concat(_)
Concat(ss) == IF ss = <<>> THEN <<>> ELSE Head(ss) \o Concat(Tail(ss))

\* String.prototype.toLowerCase, one character
LowerChar(c) ==
    CASE c = "X" -> "x"
      [] c = "Y" -> "y"
      [] c = "Z" -> "z"
      [] OTHER -> c

toLowerCase(s) == [i \in DOMAIN s |-> LowerChar(s[i])]

\* Array.prototype.join
RECURSIVE join(_, _)
join(ss, sep) ==
    IF ss = <<>> THEN <<>>
    ELSE IF Len(ss) = 1 THEN ss[1]
    ELSE ss[1] \o sep \o join(Tail(ss), sep)

IsWhitespace(c) == c = " "

\* String.prototype.replace(/\s+/g, '-')
RECURSIVE replaceWhitespaceRuns(_)
replaceWhitespaceRuns(s) ==
    IF s = <<>> THEN <<>>
    ELSE IF IsWhitespace(Head(s))
         THEN IF Len(s) > 1 /\ IsWhitespace(s[2])
              THEN replaceWhitespaceRuns(Tail(s))
              ELSE <<"-">> \o replaceWhitespaceRuns(Tail(s))
         ELSE <<Head(s)>> \o replaceWhitespaceRuns(Tail(s))

----------------------------------------------------------------------------
(* Arrays *)

\* The value of a find that matched no building: a record whose name is
\* undefined, so that supplierBuilding?.name is its name field.
noBuilding == [name |-> undefined]

\* The value of tree before the first return
noTree == [returned |-> FALSE]

\* Array.prototype.find over buildings: the first element satisfying P
find(seq, P(_)) ==
    IF \E i \in DOMAIN seq : P(seq[i])
    THEN seq[CHOOSE i \in DOMAIN seq :
                 P(seq[i]) /\ \A j \in 1..(i - 1) : ~P(seq[j])]
    ELSE noBuilding

some(seq, P(_)) == \E i \in DOMAIN seq : P(seq[i])

every(seq, P(_)) == \A i \in DOMAIN seq : P(seq[i])

filter(seq, P(_)) == SelectSeq(seq, P)

map(seq, F(_)) == [i \in DOMAIN seq |-> F(seq[i])]

Max(S) == CHOOSE m \in S : \A n \in S : n <= m

\* Number of elements of seq satisfying P
Count(seq, P(_)) == Cardinality({i \in DOMAIN seq : P(seq[i])})

----------------------------------------------------------------------------
(* findFinalProductBuildings *)

\* Root detection, were a building's own inputs counted among the consumers
findFinalProductBuildingsCountingSelf(buildings) ==
    filter(buildings, LAMBDA building :
        every(building.production.outputs, LAMBDA output :
            LET isConsumed ==
                    some(buildings, LAMBDA otherBuilding :
                        some(otherBuilding.consumption.inputs, LAMBDA input :
                            toLowerCase(input.name) = toLowerCase(output.name)))
            IN ~isConsumed))

findFinalProductBuildings(buildings) ==
    filter(buildings, LAMBDA building :
        every(building.production.outputs, LAMBDA output :
            LET isConsumed ==
                    some(buildings, LAMBDA otherBuilding :
                        /\ otherBuilding.name # building.name
                        /\ some(otherBuilding.consumption.inputs, LAMBDA input :
                               toLowerCase(input.name) = toLowerCase(output.name)))
            IN ~isConsumed))

----------------------------------------------------------------------------
(* createChainBuilding *)

\* The supplier lookup, were the names compared without toLowerCase
findSupplierExactCase(input, allBuildings) ==
    find(allBuildings, LAMBDA b :
        some(b.production.outputs, LAMBDA output : output.name = input.name))

\* allBuildings.find(b => b.production.outputs.some(output => ...)),
\* as written in traceSupplyChain and in createChainBuilding
findSupplier(input, allBuildings) ==
    find(allBuildings, LAMBDA b :
        some(b.production.outputs, LAMBDA output :
            toLowerCase(output.name) = toLowerCase(input.name)))

\* The consumer listing, were the names compared without toLowerCase
findConsumerNamesExactCase(output, allBuildings) ==
    map(filter(allBuildings, LAMBDA b :
                   some(b.consumption.inputs, LAMBDA input :
                       input.name = output.name)),
        LAMBDA b : b.name)

findConsumerNames(output, allBuildings) ==
    map(filter(allBuildings, LAMBDA b :
                   some(b.consumption.inputs, LAMBDA input :
                       toLowerCase(input.name) = toLowerCase(output.name))),
        LAMBDA b : b.name)

createChainBuilding(building, level, allBuildings) ==
    LET inputs ==
            map(building.consumption.inputs, LAMBDA input :
                LET supplierBuilding == findSupplier(input, allBuildings)
                IN [resourceName |-> input.name,
                    quantity |-> input.quantity,
                    sourceType |-> IF supplierBuilding # noBuilding
                                   THEN "building" ELSE "market",
                    sourceBuilding |-> supplierBuilding.name])
        outputs ==
            map(building.production.outputs, LAMBDA output :
                [resourceName |-> output.name,
                 quantity |-> output.quantity,
                 consumers |-> findConsumerNames(output, allBuildings)])
    IN [name |-> building.name,
        ratio |-> 100,
        level |-> level,
        inputs |-> inputs,
        outputs |-> outputs,
        position |-> [x |-> 0, y |-> 0]]

----------------------------------------------------------------------------
(* calculateChainRatios *)

\* [...chainBuildings].sort((a, b) => a.level - b.level), as the indices of
\* chainBuildings in sorted order (the sort is stable; the copy is shallow,
\* so the sorted array holds the very records of chainBuildings)
RECURSIVE sortByLevel(_, _)
sortByLevel(cbs, levels) ==
    IF levels = {} THEN <<>>
    ELSE LET l == CHOOSE m \in levels : \A n \in levels : m <= n
         IN SelectSeq([i \in DOMAIN cbs |-> i], LAMBDA i : cbs[i].level = l)
            \o sortByLevel(cbs, levels \ {l})

sortedBuildings(cbs) == sortByLevel(cbs, {cbs[i].level : i \in DOMAIN cbs})

\* The levels visited, were the for loop to start at level 0
resolvedLevelsFromZero(cbs) ==
    IF cbs = <<>> THEN {} ELSE 0..Max({cbs[i].level : i \in DOMAIN cbs})

\* The levels the for loop visits: 1 .. Math.max(...levels)
resolvedLevels(cbs) ==
    IF cbs = <<>> THEN {} ELSE 1..Max({cbs[i].level : i \in DOMAIN cbs})

\* The buildings the loops assign a ratio to, level by level, each level
\* in sorted order
RECURSIVE ratioOrder(_, _, _)
ratioOrder(cbs, sorted, levels) ==
    IF levels = {} THEN <<>>
    ELSE LET l == CHOOSE m \in levels : \A n \in levels : m <= n
         IN SelectSeq(sorted, LAMBDA i : cbs[i].level = l)
            \o ratioOrder(cbs, sorted, levels \ {l})

\* sortedBuildings.find(b => b.name === consumerName): an index, 0 if none
findConsumerBuilding(cbs, sorted, consumerName) ==
    IF \E k \in DOMAIN sorted : cbs[sorted[k]].name = consumerName
    THEN sorted[CHOOSE k \in DOMAIN sorted :
                    /\ cbs[sorted[k]].name = consumerName
                    /\ \A j \in 1..(k - 1) : cbs[sorted[j]].name # consumerName]
    ELSE 0

\* consumerBuilding.inputs.find(i => i.resourceName ~ output.resourceName):
\* an index, 0 if none
findConsumerInput(consumerBuilding, output) ==
    IF \E k \in DOMAIN consumerBuilding.inputs :
           toLowerCase(consumerBuilding.inputs[k].resourceName)
               = toLowerCase(output.resourceName)
    THEN CHOOSE k \in DOMAIN consumerBuilding.inputs :
             /\ toLowerCase(consumerBuilding.inputs[k].resourceName)
                    = toLowerCase(output.resourceName)
             /\ \A j \in 1..(k - 1) :
                    toLowerCase(consumerBuilding.inputs[j].resourceName)
                        # toLowerCase(output.resourceName)
    ELSE 0

\* Every requiredRatio the two inner forEach loops compute for cbs[b], each
\* as a fraction <<numerator, denominator>> of hundredths
requiredRatios(cbs, sorted, b) ==
    LET pairs == { oc \in (DOMAIN cbs[b].outputs) \X (DOMAIN cbs) :
                     /\ \E n \in DOMAIN cbs[b].outputs[oc[1]].consumers :
                            findConsumerBuilding(cbs, sorted,
                                cbs[b].outputs[oc[1]].consumers[n]) = oc[2]
                     /\ findConsumerInput(cbs[oc[2]], cbs[b].outputs[oc[1]]) # 0 }
    IN { LET output == cbs[b].outputs[oc[1]]
             consumerBuilding == cbs[oc[2]]
             consumerInput ==
                 consumerBuilding.inputs[findConsumerInput(consumerBuilding, output)]
         IN <<consumerInput.quantity * consumerBuilding.ratio, output.quantity>> :
         oc \in pairs }

FracLeq(f, g) == f[1] * g[2] <= g[1] * f[2]

\* maxRatio after the loops: Math.max over 0 and every requiredRatio
maxRatioOf(required) ==
    IF required = {} THEN <<0, 1>>
    ELSE CHOOSE f \in required : \A g \in required : FracLeq(g, f)

\* Math.round(maxRatio * 100) / 100, in hundredths: the rounding without
\* Math.max(maxRatio, 1.0)
roundedRatioUnfloored(maxRatio) ==
    (2 * maxRatio[1] + maxRatio[2]) \div (2 * maxRatio[2])

\* Math.round(Math.max(maxRatio, 1.0) * 100) / 100, in hundredths
roundedRatio(maxRatio) ==
    LET floored == IF FracLeq(maxRatio, <<100, 1>>) THEN <<100, 1>> ELSE maxRatio
    IN (2 * floored[1] + floored[2]) \div (2 * floored[2])

\* The ratio one callback of currentLevelBuildings.forEach assigns to cbs[b]
assignedRatio(cbs, b) ==
    roundedRatio(maxRatioOf(requiredRatios(cbs, sortedBuildings(cbs), b)))

\* The forEach that sets the ratio of every building of level 0 to 1.0
levelZeroRatios(cbs) ==
    [i \in DOMAIN cbs |->
        IF cbs[i].level = 0 THEN [cbs[i] EXCEPT !.ratio = 100] ELSE cbs[i]]

----------------------------------------------------------------------------
(* positionBuildings *)

\* positionBuildings, were index the place of the building in chainBuildings
\* instead of its place within its level
positionBuildingsByPlace(cbs) ==
    [i \in DOMAIN cbs |->
        LET level == cbs[i].level
            first == CHOOSE j \in DOMAIN cbs :
                         /\ cbs[j].level = level
                         /\ \A k \in 1..(j - 1) : cbs[k].level # level
            keysBefore == {cbs[k].level : k \in 1..(first - 1)}
            yOffset == Cardinality(keysBefore) * levelSpacing
            length == Cardinality({j \in DOMAIN cbs : cbs[j].level = level})
            xOffset == ((0 - (length - 1)) * buildingSpacing) \div 2
        IN [cbs[i] EXCEPT !.position =
                [x |-> xOffset + (i - 1) * buildingSpacing, y |-> yOffset]]]

\* The Map levels: its keys in insertion order are the levels of cbs in
\* order of first occurrence; yOffset grows by levelSpacing per key
positionBuildings(cbs) ==
    [i \in DOMAIN cbs |->
        LET level == cbs[i].level
            first == CHOOSE j \in DOMAIN cbs :
                         /\ cbs[j].level = level
                         /\ \A k \in 1..(j - 1) : cbs[k].level # level
            keysBefore == {cbs[k].level : k \in 1..(first - 1)}
            yOffset == Cardinality(keysBefore) * levelSpacing
            length == Cardinality({j \in DOMAIN cbs : cbs[j].level = level})
            index == Cardinality({j \in 1..(i - 1) : cbs[j].level = level})
            xOffset == ((0 - (length - 1)) * buildingSpacing) \div 2
        IN [cbs[i] EXCEPT !.position =
                [x |-> xOffset + index * buildingSpacing, y |-> yOffset]]]

----------------------------------------------------------------------------
(* findRootInputs, generateChainId, generateChainName *)

\* The collection, were the test rootInputs.includes left out
RECURSIVE collectRootInputsRepeated(_, _)
collectRootInputsRepeated(inputs, rootInputs) ==
    IF inputs = <<>> THEN rootInputs
    ELSE LET input == Head(inputs)
         IN IF input.sourceType = "market"
            THEN collectRootInputsRepeated(Tail(inputs),
                     Append(rootInputs, input.resourceName))
            ELSE collectRootInputsRepeated(Tail(inputs), rootInputs)

RECURSIVE collectRootInputs(_, _)
collectRootInputs(inputs, rootInputs) ==
    IF inputs = <<>> THEN rootInputs
    ELSE LET input == Head(inputs)
         IN IF /\ input.sourceType = "market"
               /\ ~some(rootInputs, LAMBDA r : r = input.resourceName)
            THEN collectRootInputs(Tail(inputs),
                                   Append(rootInputs, input.resourceName))
            ELSE collectRootInputs(Tail(inputs), rootInputs)

findRootInputs(cbs) ==
    collectRootInputs(Concat(map(cbs, LAMBDA building : building.inputs)), <<>>)

generateChainId(finalProducts) ==
    replaceWhitespaceRuns(toLowerCase(join(finalProducts, <<"-">>)))

generateChainName(finalProducts) ==
    IF Len(finalProducts) = 1
    THEN finalProducts[1] \o <<" Production Chain">>
    ELSE join(finalProducts, <<",", " ">>) \o <<" Production Chain">>

----------------------------------------------------------------------------
(* findIsolatedBuildings *)

\* findIsolatedBuildings, were processedBuildings filled from the first
\* building of each chain only
findIsolatedBuildingsRootsOnly(allBuildings, chs) ==
    LET processed == {chs[c].buildings[1].name : c \in DOMAIN chs}
    IN map(filter(allBuildings, LAMBDA building : building.name \notin processed),
           LAMBDA building : createChainBuilding(building, 0, allBuildings))

\* findIsolatedBuildings, were the filter to keep the processed buildings
\* (the negation dropped)
findIsolatedBuildingsProcessed(allBuildings, chs) ==
    LET processed == UNION { {chs[c].buildings[i].name :
                                 i \in DOMAIN chs[c].buildings} :
                             c \in DOMAIN chs }
    IN map(filter(allBuildings, LAMBDA building : building.name \in processed),
           LAMBDA building : createChainBuilding(building, 0, allBuildings))

\* findIsolatedBuildings, were the isolated buildings laid out as a chain is
findIsolatedBuildingsLaidOut(allBuildings, chs) ==
    LET processed == UNION { {chs[c].buildings[i].name :
                                 i \in DOMAIN chs[c].buildings} :
                             c \in DOMAIN chs }
    IN positionBuildings(
           map(filter(allBuildings,
                      LAMBDA building : building.name \notin processed),
               LAMBDA building : createChainBuilding(building, 0, allBuildings)))

findIsolatedBuildings(allBuildings, chs) ==
    LET processed == UNION { {chs[c].buildings[i].name :
                                 i \in DOMAIN chs[c].buildings} :
                             c \in DOMAIN chs }
    IN map(filter(allBuildings, LAMBDA building : building.name \notin processed),
           LAMBDA building : createChainBuilding(building, 0, allBuildings))

----------------------------------------------------------------------------
(* The registries the model starts from *)

BuildingNames == <<"A", "B", "C", "D", "E", "F">>

PlainNames == {<<"x">>, <<"y">>}
SpelledNames == {<<"x">>, <<"X">>, <<"x", " ">>}
SingleName == {<<"x">>}
UnitQuantity == {1}
SmallQuantities == {1, 2}
Quantities == {1, 2, 3}

SeqsUpTo(S, n) == UNION {[1..k -> S] : k \in 0..n}

\* The registries of at most n buildings, each with at most maxIn inputs and
\* maxOut outputs over the given names and quantities; the i-th building is
\* named BuildingNames[i], so names are unique, as the keys of buildingIndex
RegistriesOf(n, names, quantities, maxIn, maxOut) ==
    LET resources == [name : names, quantity : quantities]
        bodies == [inputs : SeqsUpTo(resources, maxIn),
                   outputs : SeqsUpTo(resources, maxOut)]
    IN { [i \in DOMAIN bs |->
            [name |-> BuildingNames[i],
             consumption |-> [inputs |-> bs[i].inputs],
             production |-> [outputs |-> bs[i].outputs]]] :
         bs \in SeqsUpTo(bodies, n) }

\* A building without outputs fed by two suppliers, one of which also feeds
\* the other, over every choice of the five quantities
DiamondRegistries ==
    { <<[name |-> BuildingNames[1],
         consumption |-> [inputs |-> <<[name |-> <<"x">>, quantity |-> q[1]],
                                       [name |-> <<"y">>, quantity |-> q[2]]>>],
         production |-> [outputs |-> <<>>]],
        [name |-> BuildingNames[2],
         consumption |-> [inputs |-> <<>>],
         production |-> [outputs |-> <<[name |-> <<"x">>, quantity |-> q[3]]>>]],
        [name |-> BuildingNames[3],
         consumption |-> [inputs |-> <<[name |-> <<"x">>, quantity |-> q[4]]>>],
         production |-> [outputs |-> <<[name |-> <<"y">>, quantity |-> q[5]]>>]]>> :
      q \in [1..5 -> SmallQuantities] }

Registries ==
    RegistriesOf(MaxBuildings, PlainNames, UnitQuantity, MaxInputs, MaxOutputs)
    \cup RegistriesOf(MaxBuildings - 1, SpelledNames, SmallQuantities, 1, 1)
    \cup RegistriesOf(MaxBuildings, SingleName, Quantities, 1, 1)
    \cup RegistriesOf(MaxBuildings - 1, PlainNames, UnitQuantity, 1,
                      MaxOutputs + 1)
    \cup DiamondRegistries

----------------------------------------------------------------------------
(* generateResourceTree, step by step *)

Init ==
    /\ registry \in Registries
    /\ pc = "idle"
    /\ calls = 0
    /\ finalProductBuildings = <<>>
    /\ rootIndex = 1
    /\ chains = <<>>
    /\ processedBuildings = {}
    /\ finalBuilding = noBuilding
    /\ buildingQueue = <<>>
    /\ chainProcessed = {}
    /\ chainBuildings = <<>>
    /\ ratioPending = <<>>
    /\ tree = noTree
    /\ previousTree = noTree

\* The set buildProductionChains would start from, were processedBuildings
\* a field of the service
keptProcessedBuildings(old) == old

\* The set buildProductionChains starts from: new Set<string>()
newProcessedBuildings(old) == {}

\* generateResourceTree is called; buildProductionChains runs up to its forEach
GenerateResourceTree ==
    /\ \/ pc = "idle"
       \/ pc = "done" /\ calls < MaxCalls
    /\ previousTree' = tree
    /\ chains' = <<>>
    /\ processedBuildings' = newProcessedBuildings(processedBuildings)
    /\ finalProductBuildings' = findFinalProductBuildings(registry)
    /\ rootIndex' = 1
    /\ pc' = "forEach"
    /\ UNCHANGED <<registry, calls, finalBuilding, buildingQueue,
                   chainProcessed, chainBuildings, ratioPending, tree>>

\* The queue, were the root seeded at level 1
seedQueueLevelOne(building) == <<[building |-> building, level |-> 1]>>

\* buildingQueue = [{ building: finalBuilding, level: 0 }]
seedQueue(building) == <<[building |-> building, level |-> 0]>>

\* One callback of finalProductBuildings.forEach, up to the while loop of
\* traceSupplyChain
ForEachFinalProduct ==
    /\ pc = "forEach"
    /\ rootIndex <= Len(finalProductBuildings)
    /\ LET building == finalProductBuildings[rootIndex]
       IN IF building.name \in processedBuildings
          THEN /\ rootIndex' = rootIndex + 1
               /\ UNCHANGED <<pc, finalBuilding, buildingQueue,
                              chainProcessed, chainBuildings>>
          ELSE /\ finalBuilding' = building
               /\ buildingQueue' = seedQueue(building)
               /\ chainProcessed' = {}
               /\ chainBuildings' = <<>>
               /\ pc' = "while"
               /\ UNCHANGED rootIndex
    /\ UNCHANGED <<registry, calls, finalProductBuildings, chains,
                   processedBuildings, ratioPending, tree, previousTree>>

\* The queue entries one iteration pushes: for each input whose supplier
\* exists and is not in chainProcessed, the supplier one level up
\* The entries, were a supplier queued at the level of its consumer
RECURSIVE supplierEntriesSameLevel(_, _, _, _)
supplierEntriesSameLevel(inputs, level, allBuildings, processed) ==
    IF inputs = <<>> THEN <<>>
    ELSE LET supplierBuilding == findSupplier(Head(inputs), allBuildings)
             rest == supplierEntriesSameLevel(Tail(inputs), level,
                                              allBuildings, processed)
         IN IF /\ supplierBuilding # noBuilding
               /\ supplierBuilding.name \notin processed
            THEN <<[building |-> supplierBuilding, level |-> level]>> \o rest
            ELSE rest

\* The entries, were the supplier of the first input the only one queued
supplierEntriesFirstInput(inputs, level, allBuildings, processed) ==
    IF inputs = <<>> THEN <<>>
    ELSE LET supplierBuilding == findSupplier(Head(inputs), allBuildings)
         IN IF /\ supplierBuilding # noBuilding
               /\ supplierBuilding.name \notin processed
            THEN <<[building |-> supplierBuilding, level |-> level + 1]>>
            ELSE <<>>

RECURSIVE supplierEntries(_, _, _, _)
supplierEntries(inputs, level, allBuildings, processed) ==
    IF inputs = <<>> THEN <<>>
    ELSE LET supplierBuilding == findSupplier(Head(inputs), allBuildings)
             rest == supplierEntries(Tail(inputs), level, allBuildings, processed)
         IN IF /\ supplierBuilding # noBuilding
               /\ supplierBuilding.name \notin processed
            THEN <<[building |-> supplierBuilding, level |-> level + 1]>> \o rest
            ELSE rest

\* The queue, were a popped building that chainProcessed holds pushed back
requeueEntry(queue, entry) == Append(queue, entry)

\* What the loop does with a popped building that chainProcessed holds
\* already: continue, the entry is dropped
discardEntry(queue, entry) == queue

\* The test, were a popped building never taken as processed (the test made
\* when a supplier is pushed only)
chainProcessedNeverHas(processed, name) == FALSE

\* chainProcessed.has(building.name), on the building popped
chainProcessedHas(processed, name) == name \in processed

\* The queue, were the suppliers put at its front (unshift)
enqueueFront(queue, entries) == entries \o queue

\* buildingQueue.push, once per supplier found
enqueue(queue, entries) == queue \o entries

\* One iteration of the while loop of traceSupplyChain
TraceStep ==
    /\ pc = "while"
    /\ buildingQueue # <<>>
    /\ LET entry == Head(buildingQueue)
           building == entry.building
           level == entry.level
           shifted == Tail(buildingQueue)
       IN IF chainProcessedHas(chainProcessed, building.name)
          THEN /\ buildingQueue' = discardEntry(shifted, entry)
               /\ UNCHANGED <<chainProcessed, processedBuildings, chainBuildings>>
          ELSE /\ chainProcessed' = chainProcessed \cup {building.name}
               /\ processedBuildings' = processedBuildings \cup {building.name}
               /\ chainBuildings' =
                      Append(chainBuildings,
                             createChainBuilding(building, level, registry))
               /\ buildingQueue' =
                      enqueue(shifted,
                              supplierEntries(building.consumption.inputs,
                                              level, registry, chainProcessed'))
    /\ UNCHANGED <<registry, pc, calls, finalProductBuildings, rootIndex,
                   chains, finalBuilding, ratioPending, tree, previousTree>>

\* The while loop ends; calculateChainRatios sorts, sets the ratios of
\* level 0 and reaches its for loop
CalculateChainRatios ==
    /\ pc = "while"
    /\ buildingQueue = <<>>
    /\ chainBuildings' = levelZeroRatios(chainBuildings)
    /\ ratioPending' = ratioOrder(chainBuildings, sortedBuildings(chainBuildings),
                                  resolvedLevels(chainBuildings))
    /\ pc' = "ratios"
    /\ UNCHANGED <<registry, calls, finalProductBuildings, rootIndex, chains,
                   processedBuildings, finalBuilding, buildingQueue,
                   chainProcessed, tree, previousTree>>

\* One callback of currentLevelBuildings.forEach: one building gets its ratio
RatioStep ==
    /\ pc = "ratios"
    /\ ratioPending # <<>>
    /\ LET b == Head(ratioPending)
       IN chainBuildings' =
              [chainBuildings EXCEPT ![b].ratio = assignedRatio(chainBuildings, b)]
    /\ ratioPending' = Tail(ratioPending)
    /\ UNCHANGED <<registry, pc, calls, finalProductBuildings, rootIndex,
                   chains, processedBuildings, finalBuilding, buildingQueue,
                   chainProcessed, tree, previousTree>>

\* The push, were the chain put in front of the chains (unshift)
pushChainFront(chs, chain) ==
    IF Len(chain.buildings) > 0 THEN <<chain>> \o chs ELSE chs

\* The push, were a chain of the root alone left out (length > 1)
pushChainOfSeveral(chs, chain) ==
    IF Len(chain.buildings) > 1 THEN Append(chs, chain) ELSE chs

\* The push, were the ChainBuilding of a building one record shared by
\* every chain the building is in: the ratio and position written for the
\* new chain show in the chains pushed before
pushChainSharedRecords(chs, chain) ==
    LET shared(b) ==
            IF \E k \in DOMAIN chain.buildings : chain.buildings[k].name = b.name
            THEN chain.buildings[CHOOSE k \in DOMAIN chain.buildings :
                                     chain.buildings[k].name = b.name]
            ELSE b
    IN Append([c \in DOMAIN chs |->
                  [chs[c] EXCEPT !.buildings =
                      [i \in DOMAIN chs[c].buildings |->
                          shared(chs[c].buildings[i])]]],
              chain)

\* if (chain.buildings.length > 0) chains.push(chain)
pushChain(chs, chain) ==
    IF Len(chain.buildings) > 0 THEN Append(chs, chain) ELSE chs

\* The rest of traceSupplyChain once the ratios are set, and the push of the
\* chain in buildProductionChains
TraceReturn ==
    /\ pc = "ratios"
    /\ ratioPending = <<>>
    /\ LET positioned == positionBuildings(chainBuildings)
           finalProducts == map(finalBuilding.production.outputs,
                                LAMBDA o : o.name)
           chain == [id |-> generateChainId(finalProducts),
                     name |-> generateChainName(finalProducts),
                     buildings |-> positioned,
                     finalProducts |-> finalProducts,
                     rootInputs |-> findRootInputs(positioned)]
       IN chains' = pushChain(chains, chain)
    /\ rootIndex' = rootIndex + 1
    /\ pc' = "forEach"
    /\ finalBuilding' = noBuilding
    /\ chainProcessed' = {}
    /\ chainBuildings' = <<>>
    /\ UNCHANGED <<registry, calls, finalProductBuildings, processedBuildings,
                   buildingQueue, ratioPending, tree, previousTree>>

\* buildProductionChains returns; findIsolatedBuildings; the tree is returned
ReturnResourceTree ==
    /\ pc = "forEach"
    /\ rootIndex > Len(finalProductBuildings)
    /\ tree' = [chains |-> chains,
                isolatedBuildings |-> findIsolatedBuildings(registry, chains),
                totalChains |-> Len(chains)]
    /\ calls' = calls + 1
    /\ pc' = "done"
    /\ UNCHANGED <<registry, finalProductBuildings, rootIndex, chains,
                   processedBuildings, finalBuilding, buildingQueue,
                   chainProcessed, chainBuildings, ratioPending, previousTree>>

Next ==
    \/ GenerateResourceTree
    \/ ForEachFinalProduct
    \/ TraceStep
    \/ CalculateChainRatios
    \/ RatioStep
    \/ TraceReturn
    \/ ReturnResourceTree

Spec == Init /\ [][Next]_vars

\* The registries the traversal is followed to its end from: chains of
\* one-input buildings, which close cycles, and pairs of buildings of several
\* inputs, which queue a supplier more than once
TraversalRegistries ==
    RegistriesOf(MaxBuildings, PlainNames, UnitQuantity, 1, 1)
    \cup RegistriesOf(MaxBuildings - 1, PlainNames, UnitQuantity,
                      MaxInputs, MaxOutputs)

TraversalInit ==
    /\ registry \in TraversalRegistries
    /\ pc = "idle"
    /\ calls = 0
    /\ finalProductBuildings = <<>>
    /\ rootIndex = 1
    /\ chains = <<>>
    /\ processedBuildings = {}
    /\ finalBuilding = noBuilding
    /\ buildingQueue = <<>>
    /\ chainProcessed = {}
    /\ chainBuildings = <<>>
    /\ ratioPending = <<>>
    /\ tree = noTree
    /\ previousTree = noTree

\* The call is synchronous: a step that can be taken is taken
FairSpec == TraversalInit /\ [][Next]_vars /\ WF_vars(Next)

----------------------------------------------------------------------------
(* Vocabulary of the properties *)

Returned == pc = "done"

\* The places <<chain, index>> of the ChainBuildings of a list of chains
PlacesOf(chs) ==
    UNION {{<<c, i>> : i \in DOMAIN chs[c].buildings} : c \in DOMAIN chs}

ChainPlaces(t) == PlacesOf(t.chains)

ChainBuildingAt(t, place) == t.chains[place[1]].buildings[place[2]]

AllChainBuildings(t) ==
    {ChainBuildingAt(t, place) : place \in ChainPlaces(t)}
    \cup {t.isolatedBuildings[i] : i \in DOMAIN t.isolatedBuildings}

\* How many times a building name occurs in the buildings of the chains
OccurrencesInChains(chs, name) ==
    Cardinality({place \in PlacesOf(chs) :
                     chs[place[1]].buildings[place[2]].name = name})

OccurrencesInIsolated(t, name) ==
    Count(t.isolatedBuildings, LAMBDA b : b.name = name)

InSomeChain(t, name) == OccurrencesInChains(t.chains, name) > 0

\* Two names that differ at most in the case of their letters
CasePairs == {{"x", "X"}, {"y", "Y"}, {"z", "Z"}}

SameLetter(c, d) == c = d \/ {c, d} \in CasePairs

DifferOnlyInCase(s, t) ==
    /\ Len(s) = Len(t)
    /\ \A i \in 1..Len(s) : SameLetter(s[i], t[i])

\* A name without its leading and trailing whitespace
RECURSIVE TrimStart(_)
TrimStart(s) ==
    IF s # <<>> /\ IsWhitespace(Head(s)) THEN TrimStart(Tail(s)) ELSE s

RECURSIVE TrimEnd(_)
TrimEnd(s) ==
    IF s # <<>> /\ IsWhitespace(s[Len(s)])
    THEN TrimEnd(SubSeq(s, 1, Len(s) - 1)) ELSE s

Trimmed(s) == TrimEnd(TrimStart(s))

----------------------------------------------------------------------------
(* C1 *)

\* C1 (partition invariant): in the returned tree every registry building
\* occurs exactly once in the chains' buildings and isolatedBuildings taken
\* together, and the tree holds no other building.
C1_Partition ==
    Returned =>
        /\ \A i \in DOMAIN registry :
               OccurrencesInChains(tree.chains, registry[i].name)
                   + OccurrencesInIsolated(tree, registry[i].name) = 1
        /\ Cardinality(ChainPlaces(tree)) + Len(tree.isolatedBuildings)
               = Len(registry)

(* C2 *)

\* C2 (first reached wins): during one call each building is expanded into a
\* ChainBuilding at most once, over the chains already built and the chain
\* being traced.
C2_ExpandedAtMostOnce ==
    \A i \in DOMAIN registry :
        OccurrencesInChains(chains, registry[i].name)
            + Count(chainBuildings, LAMBDA b : b.name = registry[i].name) <= 1

(* C3 *)

\* C3 (isolated collection): in the returned tree a registry building is in
\* isolatedBuildings if and only if it is in no chain, and isolatedBuildings
\* holds registry buildings only.
C3_IsolatedIffInNoChain ==
    Returned =>
        /\ \A i \in DOMAIN registry :
               (OccurrencesInIsolated(tree, registry[i].name) > 0)
                   <=> ~InSomeChain(tree, registry[i].name)
        /\ \A k \in DOMAIN tree.isolatedBuildings :
               \E i \in DOMAIN registry :
                   registry[i].name = tree.isolatedBuildings[k].name

\* A tree is returned that has a chain with an upstream building and an
\* isolated building
C3_Witness ==
    /\ Returned
    /\ tree.isolatedBuildings # <<>>
    /\ \E c \in DOMAIN tree.chains : Len(tree.chains[c].buildings) > 1

(* C4 *)

\* C4 (level-0 ratio): in every chain of the returned tree each building of
\* level 0 has ratio 1.0.
C4_LevelZeroRatio ==
    Returned =>
        \A place \in ChainPlaces(tree) :
            ChainBuildingAt(tree, place).level = 0
                => ChainBuildingAt(tree, place).ratio = 100

\* A chain is returned whose level-0 building consumes its own output, more
\* of it per cycle than it produces
C4_Witness ==
    /\ Returned
    /\ \E place \in ChainPlaces(tree) :
           LET b == ChainBuildingAt(tree, place)
           IN /\ b.level = 0
              /\ \E o \in DOMAIN b.outputs, i \in DOMAIN b.inputs :
                     /\ b.outputs[o].resourceName = b.inputs[i].resourceName
                     /\ b.inputs[i].quantity > b.outputs[o].quantity

(* C5 *)

\* C5 (ratio floor): every ChainBuilding of the returned tree, in a chain or
\* isolated, has ratio >= 1.0 (the quantities of every registry are > 0).
C5_RatioFloor ==
    Returned => \A b \in AllChainBuildings(tree) : b.ratio >= 100

\* A chain is returned with a building above level 0 whose only demand is
\* below one cycle of its output
C5_Witness ==
    /\ Returned
    /\ \E c \in DOMAIN tree.chains :
           \E p, q \in DOMAIN tree.chains[c].buildings :
               LET producer == tree.chains[c].buildings[p]
                   consumer == tree.chains[c].buildings[q]
               IN /\ producer.level = 1
                  /\ consumer.level = 0
                  /\ Len(producer.outputs) = 1
                  /\ \E i \in DOMAIN consumer.inputs :
                         /\ consumer.inputs[i].sourceBuilding = producer.name
                         /\ consumer.inputs[i].quantity
                                < producer.outputs[1].quantity

(* C6 *)

\* C6 (determinism): a second call on the same registry returns a tree
\* identical to the tree of the call before: same chains in the same order,
\* same buildings, levels, ratios, positions, sources, same isolated list.
C6_Deterministic ==
    (Returned /\ calls >= 2) => tree = previousTree

\* A second call has returned a tree with a chain and an isolated building
C6_Witness ==
    /\ Returned
    /\ calls >= 2
    /\ tree.chains # <<>>
    /\ tree.isolatedBuildings # <<>>

(* C7 *)

\* C7 (termination): the queue of every chain traversal eventually empties
\* and every call of generateResourceTree eventually returns, whatever
\* cycles and self-loops the producer edges of the registry form.
C7_Terminates ==
    /\ (pc = "while") ~> (pc = "while" /\ buildingQueue = <<>>)
    /\ (pc \in {"forEach", "while", "ratios"}) ~> Returned

\* A tree is returned with a chain in which two buildings supply each other
C7_Witness ==
    /\ Returned
    /\ \E c \in DOMAIN tree.chains :
           LET bs == tree.chains[c].buildings
               Supplies(p, q) ==
                   \E i \in DOMAIN bs[q].inputs :
                       /\ bs[q].inputs[i].sourceType = "building"
                       /\ bs[q].inputs[i].sourceBuilding = bs[p].name
           IN \E p, q \in DOMAIN bs :
                  p # q /\ Supplies(p, q) /\ Supplies(q, p)

(* C8 *)

\* C8 (self-loop guard): no ChainBuilding of the returned tree has an input
\* whose sourceBuilding is the building itself; an input matching one of the
\* building's own outputs is attributed to another producer if the registry
\* has one and to the market otherwise.
C8_NoSelfProducer ==
    Returned =>
        \A b \in AllChainBuildings(tree) :
            \A i \in DOMAIN b.inputs :
                LET input == b.inputs[i]
                    others == {j \in DOMAIN registry :
                                  /\ registry[j].name # b.name
                                  /\ \E o \in DOMAIN registry[j].production.outputs :
                                         DifferOnlyInCase(
                                             registry[j].production.outputs[o].name,
                                             input.resourceName)}
                IN /\ input.sourceBuilding # b.name
                   /\ others # {} =>
                          /\ input.sourceType = "building"
                          /\ \E j \in others :
                                 input.sourceBuilding = registry[j].name
                   /\ others = {} => input.sourceType = "market"

(* C9, C10 *)

\* Root detection under a matching M of resource names: a building with an
\* output that matches an input of another building heads no chain
RootDetectionMatches(M(_, _)) ==
    \A i, j \in DOMAIN registry :
        (/\ i # j
         /\ \E o \in DOMAIN registry[i].production.outputs,
               n \in DOMAIN registry[j].consumption.inputs :
                M(registry[i].production.outputs[o].name,
                  registry[j].consumption.inputs[n].name))
        => \A c \in DOMAIN tree.chains :
               tree.chains[c].buildings[1].name # registry[i].name

\* Producer lookup under M: an input that matches an output of another
\* registry building is sourced from a building with a matching output
ProducerLookupMatches(M(_, _)) ==
    \A b \in AllChainBuildings(tree) :
        \A i \in DOMAIN b.inputs :
            LET Produces(j) ==
                    \E o \in DOMAIN registry[j].production.outputs :
                        M(registry[j].production.outputs[o].name,
                          b.inputs[i].resourceName)
            IN (\E j \in DOMAIN registry :
                    registry[j].name # b.name /\ Produces(j))
               => /\ b.inputs[i].sourceType = "building"
                  /\ \E j \in DOMAIN registry :
                         /\ Produces(j)
                         /\ b.inputs[i].sourceBuilding = registry[j].name

\* Consumer listing under M: every other building with an input that
\* matches an output is among the consumers of the output
ConsumerListingMatches(M(_, _)) ==
    \A b \in AllChainBuildings(tree) :
        \A o \in DOMAIN b.outputs :
            \A j \in DOMAIN registry :
                (/\ registry[j].name # b.name
                 /\ \E n \in DOMAIN registry[j].consumption.inputs :
                        M(registry[j].consumption.inputs[n].name,
                          b.outputs[o].resourceName))
                => \E k \in DOMAIN b.outputs[o].consumers :
                       b.outputs[o].consumers[k] = registry[j].name

\* Ratio computation under M: a producer above level 0 covers, up to the
\* rounding to hundredths, the demand of every consumer of a lower level of
\* its chain whose first matching input matches one of its outputs
RatioComputationMatches(M(_, _)) ==
    \A c \in DOMAIN tree.chains :
        \A p, q \in DOMAIN tree.chains[c].buildings :
            LET producer == tree.chains[c].buildings[p]
                consumer == tree.chains[c].buildings[q]
            IN (producer.level >= 1 /\ consumer.level < producer.level) =>
                   \A o \in DOMAIN producer.outputs :
                       \A n \in DOMAIN consumer.inputs :
                           (/\ M(consumer.inputs[n].resourceName,
                                 producer.outputs[o].resourceName)
                            /\ \A m \in 1..(n - 1) :
                                   ~M(consumer.inputs[m].resourceName,
                                      producer.outputs[o].resourceName))
                           => 2 * producer.ratio * producer.outputs[o].quantity
                                  + producer.outputs[o].quantity
                              >= 2 * consumer.inputs[n].quantity * consumer.ratio

\* C9 (case-insensitive matching): root detection, producer lookup, consumer
\* listing and ratio computation treat two resource names that differ only
\* in letter case as the same resource.
C9_CaseInsensitive ==
    Returned =>
        /\ RootDetectionMatches(DifferOnlyInCase)
        /\ ProducerLookupMatches(DifferOnlyInCase)
        /\ ConsumerListingMatches(DifferOnlyInCase)
        /\ RatioComputationMatches(DifferOnlyInCase)

\* A chain is returned in which a consumer's input and its producer's output
\* are spelled in different case, and the producer's ratio is above 1.0
C9_Witness ==
    /\ Returned
    /\ \E c \in DOMAIN tree.chains :
           \E p, q \in DOMAIN tree.chains[c].buildings :
               LET producer == tree.chains[c].buildings[p]
                   consumer == tree.chains[c].buildings[q]
               IN /\ producer.level = 1
                  /\ producer.ratio > 100
                  /\ \E o \in DOMAIN producer.outputs, n \in DOMAIN consumer.inputs :
                         /\ consumer.inputs[n].sourceBuilding = producer.name
                         /\ consumer.inputs[n].resourceName
                                # producer.outputs[o].resourceName
                         /\ DifferOnlyInCase(consumer.inputs[n].resourceName,
                                             producer.outputs[o].resourceName)

SameTrimmed(s, t) == DifferOnlyInCase(Trimmed(s), Trimmed(t))

\* C10 (whitespace-trimmed matching): root detection, producer lookup and
\* consumer listing treat two resource names that differ only by leading or
\* trailing whitespace (and letter case) as the same resource.
C10_WhitespaceTrimmed ==
    Returned =>
        /\ RootDetectionMatches(SameTrimmed)
        /\ ProducerLookupMatches(SameTrimmed)
        /\ ConsumerListingMatches(SameTrimmed)

(* C11 *)

\* The registry indices of the buildings none of whose outputs matches, up
\* to letter case, an input of another building
Qualifying ==
    { i \in DOMAIN registry :
        \A o \in DOMAIN registry[i].production.outputs :
            \A j \in DOMAIN registry \ {i} :
                \A n \in DOMAIN registry[j].consumption.inputs :
                    ~DifferOnlyInCase(registry[i].production.outputs[o].name,
                                      registry[j].consumption.inputs[n].name) }

\* The sublist of the first n registry buildings at the indices S, in
\* registry order
RECURSIVE SublistAt(_, _)
SublistAt(S, n) ==
    IF n = 0 THEN <<>>
    ELSE SublistAt(S, n - 1) \o (IF n \in S THEN <<registry[n]>> ELSE <<>>)

\* C11 (root detection): findFinalProductBuildings returns exactly the
\* registry buildings of which every output is matched by no input of any
\* other building, as a sublist in registry order; consuming one's own
\* output does not disqualify, and a building without outputs qualifies.
C11_RootDetection ==
    pc # "idle" =>
        finalProductBuildings = SublistAt(Qualifying, Len(registry))

\* Root detection has run on a registry where a root consumes its own
\* output and another building, with one output consumed and one not, is
\* no root
C11_Witness ==
    /\ pc # "idle"
    /\ \E i \in Qualifying :
           \E o \in DOMAIN registry[i].production.outputs,
              n \in DOMAIN registry[i].consumption.inputs :
               registry[i].production.outputs[o].name
                   = registry[i].consumption.inputs[n].name
    /\ \E i \in DOMAIN registry \ Qualifying :
           /\ Len(registry[i].production.outputs) = 2
           /\ \E o \in DOMAIN registry[i].production.outputs :
                  \A j \in DOMAIN registry \ {i} :
                      \A n \in DOMAIN registry[j].consumption.inputs :
                          registry[j].consumption.inputs[n].name
                              # registry[i].production.outputs[o].name

(* C12 *)

\* C12 (one chain per root): the returned tree has exactly one chain per
\* building that root detection returns, in registry order; the i-th chain
\* has the i-th root as its level-0 building, and totalChains is the number
\* of chains.
C12_OneChainPerRoot ==
    Returned =>
        LET roots == SublistAt(Qualifying, Len(registry))
        IN /\ Len(tree.chains) = Len(roots)
           /\ \A c \in DOMAIN tree.chains :
                  LET bs == tree.chains[c].buildings
                  IN /\ bs # <<>>
                     /\ bs[1].name = roots[c].name
                     /\ \A k \in DOMAIN bs :
                            bs[k].level = 0 <=> bs[k].name = roots[c].name
           /\ tree.totalChains = Len(tree.chains)

\* A tree of two chains is returned, one of them with an upstream building
C12_Witness ==
    /\ Returned
    /\ Len(tree.chains) >= 2
    /\ tree.chains[1].buildings[1].name # tree.chains[2].buildings[1].name
    /\ \E c \in DOMAIN tree.chains : Len(tree.chains[c].buildings) > 1

(* C13 *)

\* The registry is a single building without inputs and with one output
LoneProducer ==
    /\ Len(registry) = 1
    /\ registry[1].consumption.inputs = <<>>
    /\ Len(registry[1].production.outputs) = 1

\* C13 (lone producer scenario), as claimed: for a registry of a single
\* building A with no inputs and one output that nothing consumes, the
\* returned tree has chains = [] and isolatedBuildings = [A], A at level 0.
C13_LoneProducerIsolated ==
    (Returned /\ LoneProducer) =>
        /\ tree.chains = <<>>
        /\ Len(tree.isolatedBuildings) = 1
        /\ tree.isolatedBuildings[1].name = registry[1].name
        /\ tree.isolatedBuildings[1].level = 0

\* C13 as amended: for such a registry the returned tree has exactly one
\* chain, whose only building is A at level 0 with ratio 1.0 and whose
\* finalProducts is A's output; isolatedBuildings = [] and totalChains = 1.
C13_LoneProducerChain ==
    (Returned /\ LoneProducer) =>
        /\ Len(tree.chains) = 1
        /\ Len(tree.chains[1].buildings) = 1
        /\ tree.chains[1].buildings[1].name = registry[1].name
        /\ tree.chains[1].buildings[1].level = 0
        /\ tree.chains[1].buildings[1].ratio = 100
        /\ tree.chains[1].finalProducts
               = <<registry[1].production.outputs[1].name>>
        /\ tree.isolatedBuildings = <<>>
        /\ tree.totalChains = 1

\* A tree is returned for a lone producer
C13_Witness ==
    /\ Returned
    /\ LoneProducer
    /\ tree.totalChains = 1

(* C14 *)

\* C14 (no-root registries): when root detection returns no building (the
\* registry is empty, or every building has an output that another building
\* consumes), the returned tree has chains = [], totalChains = 0 and
\* isolatedBuildings holds every registry building exactly once, in
\* registry order.
C14_NoRoots ==
    (Returned /\ Qualifying = {}) =>
        /\ tree.chains = <<>>
        /\ tree.totalChains = 0
        /\ Len(tree.isolatedBuildings) = Len(registry)
        /\ \A i \in DOMAIN registry :
               tree.isolatedBuildings[i].name = registry[i].name

\* A tree is returned for a registry of several buildings and no root, each
\* building supplying another
C14_Witness ==
    /\ Returned
    /\ Qualifying = {}
    /\ Len(registry) >= 2
    /\ \A k \in DOMAIN tree.isolatedBuildings :
           \E i \in DOMAIN tree.isolatedBuildings[k].inputs :
               /\ tree.isolatedBuildings[k].inputs[i].sourceType = "building"
               /\ tree.isolatedBuildings[k].inputs[i].sourceBuilding
                      # tree.isolatedBuildings[k].name

(* C15, C16, C17 *)

\* The consumers of output o of the building at p among the buildings bs of
\* a chain: <<q, n>> where n is the first input of bs[q] that matches the
\* output, up to letter case
ConsumersInChain(bs, p, o) ==
    { qn \in (DOMAIN bs) \X (1..MaxInputs) :
        /\ qn[2] \in DOMAIN bs[qn[1]].inputs
        /\ DifferOnlyInCase(bs[qn[1]].inputs[qn[2]].resourceName,
                            bs[p].outputs[o].resourceName)
        /\ \A m \in 1..(qn[2] - 1) :
               ~DifferOnlyInCase(bs[qn[1]].inputs[m].resourceName,
                                 bs[p].outputs[o].resourceName) }

\* C.inputQuantity(o) * ratio(C), in hundredths, with the ratio C has in bs
Demand(bs, qn) == bs[qn[1]].inputs[qn[2]].quantity * bs[qn[1]].ratio

\* round2, on a fraction of hundredths: round half up
Round2(f) == (2 * f[1] + f[2]) \div (2 * f[2])

\* round2(max(1.0, max over (o, C) of C.inputQuantity(o) * ratio(C) /
\* o.quantity)) for the building at p, from the ratios of bs
StatedRatio(bs, p) ==
    LET required == {<<Demand(bs, qn[2]), bs[p].outputs[qn[1]].quantity>> :
                        qn \in {on \in (DOMAIN bs[p].outputs)
                                        \X ((DOMAIN bs) \X (1..MaxInputs)) :
                                    on[2] \in ConsumersInChain(bs, p, on[1])}}
                    \cup {<<100, 1>>}
    IN Round2(CHOOSE f \in required : \A g \in required : FracLeq(g, f))

RECURSIVE SumOfDemands(_, _)
SumOfDemands(bs, consumers) ==
    IF consumers = {} THEN 0
    ELSE LET qn == CHOOSE x \in consumers : TRUE
         IN Demand(bs, qn) + SumOfDemands(bs, consumers \ {qn})

\* C15 (ratio formula): in every returned chain each building B of level
\* >= 1 has ratio(B) = round2(max(1.0, max over B's outputs o and the
\* in-chain buildings C with an input matching o of C.inputQuantity(o) *
\* ratio(C) / o.quantity)), ratio(C) being C's ratio in the returned chain.
C15_RatioFormula ==
    Returned =>
        \A c \in DOMAIN tree.chains :
            LET bs == tree.chains[c].buildings
            IN \A p \in DOMAIN bs :
                   bs[p].level >= 1 => bs[p].ratio = StatedRatio(bs, p)

\* C16 (demand covered per consumer): in every returned chain, for every
\* building B, output o of B and in-chain consumer C of o,
\* ratio(B) * o.quantity >= C.inputQuantity(o) * ratio(C), with the ratios
\* of the returned chain.
C16_DemandCoveredPerConsumer ==
    Returned =>
        \A c \in DOMAIN tree.chains :
            LET bs == tree.chains[c].buildings
            IN \A p \in DOMAIN bs :
                   \A o \in DOMAIN bs[p].outputs :
                       \A qn \in ConsumersInChain(bs, p, o) :
                           bs[p].ratio * bs[p].outputs[o].quantity
                               >= Demand(bs, qn)

\* C17 (aggregate demand covered): in every returned chain, for every
\* producer B and output o of B, ratio(B) * o.quantity >= the sum over the
\* in-chain consumers C of o of C.inputQuantity(o) * ratio(C).
C17_AggregateDemandCovered ==
    Returned =>
        \A c \in DOMAIN tree.chains :
            LET bs == tree.chains[c].buildings
            IN \A p \in DOMAIN bs :
                   \A o \in DOMAIN bs[p].outputs :
                       bs[p].ratio * bs[p].outputs[o].quantity
                           >= SumOfDemands(bs, ConsumersInChain(bs, p, o))

(* C18 *)

\* C18 (layout rule): in every returned chain the building that is the i-th
\* (from 0, in discovery order) of the n buildings of its level has
\* x = -((n - 1) * 150) / 2 + i * 150 and y = level * 200.
C18_LayoutRule ==
    Returned =>
        \A c \in DOMAIN tree.chains :
            LET bs == tree.chains[c].buildings
            IN \A p \in DOMAIN bs :
                   LET n == Cardinality({k \in DOMAIN bs :
                                            bs[k].level = bs[p].level})
                       i == Cardinality({k \in 1..(p - 1) :
                                            bs[k].level = bs[p].level})
                   IN /\ 2 * bs[p].position.x
                             = (0 - (n - 1) * 150) + 2 * i * 150
                      /\ bs[p].position.y = bs[p].level * 200

\* A chain is returned with two buildings side by side at level 1
C18_Witness ==
    /\ Returned
    /\ \E c \in DOMAIN tree.chains :
           \E p, q \in DOMAIN tree.chains[c].buildings :
               LET bs == tree.chains[c].buildings
               IN /\ p < q
                  /\ bs[p].level = 1
                  /\ bs[q].level = 1
                  /\ bs[p].position = [x |-> 0 - 75, y |-> 200]
                  /\ bs[q].position = [x |-> 75, y |-> 200]

(* C19 *)

\* C19 (isolated defaults): every entry of isolatedBuildings of the returned
\* tree has level 0, ratio 1.0 and position (0, 0), whatever its inputs and
\* outputs: neither ratio resolution nor layout is applied to it.
C19_IsolatedDefaults ==
    Returned =>
        \A k \in DOMAIN tree.isolatedBuildings :
            /\ tree.isolatedBuildings[k].level = 0
            /\ tree.isolatedBuildings[k].ratio = 100
            /\ tree.isolatedBuildings[k].position = [x |-> 0, y |-> 0]

\* A tree is returned with two isolated buildings, one of which has another
\* isolated building as a consumer that needs more than one cycle of its
\* output
C19_Witness ==
    /\ Returned
    /\ \E k, m \in DOMAIN tree.isolatedBuildings :
           LET producer == tree.isolatedBuildings[k]
               consumer == tree.isolatedBuildings[m]
           IN /\ k # m
              /\ \E o \in DOMAIN producer.outputs, i \in DOMAIN consumer.inputs :
                     /\ consumer.inputs[i].sourceBuilding = producer.name
                     /\ consumer.inputs[i].resourceName
                            = producer.outputs[o].resourceName
                     /\ consumer.inputs[i].quantity > producer.outputs[o].quantity

(* C20 *)

\* C20 (producer resolution): every input of every ChainBuilding of the
\* returned tree has sourceType 'building' with sourceBuilding the first
\* building in registry order, other than the consuming building itself,
\* that has an output matching the input name (up to letter case), and has
\* sourceType 'market' without a sourceBuilding exactly when the registry has
\* no such other building.
C20_ProducerResolution ==
    Returned =>
        \A b \in AllChainBuildings(tree) :
            \A i \in DOMAIN b.inputs :
                LET input == b.inputs[i]
                    producers ==
                        {j \in DOMAIN registry :
                            /\ registry[j].name # b.name
                            /\ \E o \in DOMAIN registry[j].production.outputs :
                                   DifferOnlyInCase(
                                       registry[j].production.outputs[o].name,
                                       input.resourceName)}
                IN IF producers # {}
                   THEN /\ input.sourceType = "building"
                        /\ input.sourceBuilding
                               = registry[CHOOSE j \in producers :
                                     \A k \in producers : j <= k].name
                   ELSE /\ input.sourceType = "market"
                        /\ input.sourceBuilding = undefined

(* C21 *)

\* The registry is [A, B, C]: A has no input and one output X, B and C have
\* one input each, which matches X, and both are roots
SharedProducer ==
    /\ Len(registry) = 3
    /\ registry[1].consumption.inputs = <<>>
    /\ Len(registry[1].production.outputs) = 1
    /\ \A i \in {2, 3} :
           /\ Len(registry[i].consumption.inputs) = 1
           /\ DifferOnlyInCase(registry[i].consumption.inputs[1].name,
                               registry[1].production.outputs[1].name)
           /\ i \in Qualifying

\* C21 (claimed producer becomes market): for the registry [A produces X,
\* B consumes X, C consumes X] with B and C both roots, A is at level 1 in
\* B's chain only (with ratio 3.0 for the quantities 3 and 1), C's chain holds
\* C alone, and C's input X has sourceType market.
C21_ClaimedProducerBecomesMarket ==
    (Returned /\ SharedProducer) =>
        /\ Len(tree.chains) = 2
        /\ Len(tree.chains[1].buildings) = 2
        /\ tree.chains[1].buildings[1].name = registry[2].name
        /\ tree.chains[1].buildings[2].name = registry[1].name
        /\ tree.chains[1].buildings[2].level = 1
        /\ (/\ registry[2].consumption.inputs[1].quantity = 3
            /\ registry[1].production.outputs[1].quantity = 1)
               => tree.chains[1].buildings[2].ratio = 300
        /\ Len(tree.chains[2].buildings) = 1
        /\ tree.chains[2].buildings[1].name = registry[3].name
        /\ tree.chains[2].buildings[1].inputs[1].sourceType = "market"

(* C22 *)

\* C22 (consumer annotation): for every output of every ChainBuilding of the
\* returned tree, in a chain or isolated, consumers is the list, in registry
\* order, of the names of all other registry buildings (never the building
\* itself, whatever chain they are in) that have an input matching the
\* output name (up to letter case).
C22_ConsumerAnnotation ==
    Returned =>
        \A b \in AllChainBuildings(tree) :
            \A o \in DOMAIN b.outputs :
                LET others ==
                        {j \in DOMAIN registry :
                            /\ registry[j].name # b.name
                            /\ \E n \in DOMAIN registry[j].consumption.inputs :
                                   DifferOnlyInCase(
                                       registry[j].consumption.inputs[n].name,
                                       b.outputs[o].resourceName)}
                    listed == SublistAt(others, Len(registry))
                IN b.outputs[o].consumers
                       = [k \in DOMAIN listed |-> listed[k].name]

(* C23 *)

\* C23 (rootInputs): for every returned chain, rootInputs holds a resource
\* name if and only if some building of the chain has an input of that name
\* with sourceType market, which is an input for which the registry has no
\* producer; each name is listed once.
C23_RootInputs ==
    Returned =>
        \A c \in DOMAIN tree.chains :
            LET bs == tree.chains[c].buildings
                rootInputs == tree.chains[c].rootInputs
                inputsOf == UNION {{bs[p].inputs[i] : i \in DOMAIN bs[p].inputs} :
                                   p \in DOMAIN bs}
            IN /\ {rootInputs[k] : k \in DOMAIN rootInputs}
                      = {input.resourceName :
                             input \in {x \in inputsOf : x.sourceType = "market"}}
               /\ \A k, m \in DOMAIN rootInputs :
                      rootInputs[k] = rootInputs[m] => k = m
               /\ \A input \in inputsOf :
                      input.sourceType = "market"
                          <=> ~\E j \in DOMAIN registry :
                                  \E o \in DOMAIN registry[j].production.outputs :
                                      DifferOnlyInCase(
                                          registry[j].production.outputs[o].name,
                                          input.resourceName)

\* A chain is returned in which two buildings buy the same resource from the
\* market and one of them has an input supplied by the other
C23_Witness ==
    /\ Returned
    /\ \E c \in DOMAIN tree.chains :
           \E p, q \in DOMAIN tree.chains[c].buildings :
               LET bs == tree.chains[c].buildings
               IN /\ p # q
                  /\ \E i \in DOMAIN bs[p].inputs, k \in DOMAIN bs[q].inputs :
                         /\ bs[p].inputs[i].sourceType = "market"
                         /\ bs[q].inputs[k].sourceType = "market"
                         /\ bs[p].inputs[i].resourceName
                                = bs[q].inputs[k].resourceName
                  /\ \E i \in DOMAIN bs[p].inputs :
                         /\ bs[p].inputs[i].sourceType = "building"
                         /\ bs[p].inputs[i].sourceBuilding = bs[q].name
                  /\ Len(tree.chains[c].rootInputs) = 1

(* C24 *)

\* The registry index of the building of a name
IndexOf(name) == CHOOSE i \in DOMAIN registry : registry[i].name = name

\* The producer edges of the registry building at i: to the first building
\* in registry order with an output matching one of its inputs
ProducersOf(i) ==
    { j \in DOMAIN registry :
        \E n \in DOMAIN registry[i].consumption.inputs :
            LET Produces(k) ==
                    \E o \in DOMAIN registry[k].production.outputs :
                        DifferOnlyInCase(registry[k].production.outputs[o].name,
                                         registry[i].consumption.inputs[n].name)
            IN Produces(j) /\ \A k \in 1..(j - 1) : ~Produces(k) }

\* The buildings within k producer edges of the building at root
RECURSIVE Within(_, _)
Within(root, k) ==
    IF k = 0 THEN {root}
    ELSE LET near == Within(root, k - 1)
         IN near \cup UNION {ProducersOf(i) : i \in near}

\* C24 (level is BFS depth): in every returned chain the root has level 0
\* and the level of every other building is the length of the shortest path
\* from the root to it along producer edges; a building queued several times
\* at different levels keeps the level of its first queueing.
C24_LevelIsDepth ==
    Returned =>
        \A c \in DOMAIN tree.chains :
            LET bs == tree.chains[c].buildings
                root == IndexOf(bs[1].name)
            IN /\ bs[1].level = 0
               /\ \A p \in DOMAIN bs :
                      LET i == IndexOf(bs[p].name)
                      IN /\ i \in Within(root, bs[p].level)
                         /\ bs[p].level > 0
                                => i \notin Within(root, bs[p].level - 1)

\* A chain is returned in which a building of level 1 is also the producer
\* of another building of level 1, which queued it a second time at level 2
C24_Witness ==
    /\ Returned
    /\ \E c \in DOMAIN tree.chains :
           \E p, q \in DOMAIN tree.chains[c].buildings :
               LET bs == tree.chains[c].buildings
               IN /\ p > q
                  /\ bs[p].level = 1
                  /\ bs[q].level = 1
                  /\ \E i \in DOMAIN bs[q].inputs :
                         bs[q].inputs[i].sourceBuilding = bs[p].name

(* C25 *)

\* The levels of a sequence of queue entries or chain buildings never
\* decrease from front to back
NonDecreasingLevels(seq) ==
    \A i \in 1..(Len(seq) - 1) : seq[i].level <= seq[i + 1].level

\* C25 (level-ordered discovery): at every step of a chain traversal the
\* levels of the queued entries are non-decreasing from front to back, and
\* no queued entry is below the level of a building discovered already; so
\* in every returned chain buildings is ordered by non-decreasing level,
\* with the root first.
C25_LevelOrdered ==
    /\ pc = "while" =>
           /\ NonDecreasingLevels(buildingQueue)
           /\ NonDecreasingLevels(chainBuildings)
           /\ (chainBuildings # <<>> /\ buildingQueue # <<>>)
                  => chainBuildings[Len(chainBuildings)].level
                         <= buildingQueue[1].level
    /\ Returned =>
           \A c \in DOMAIN tree.chains :
               /\ NonDecreasingLevels(tree.chains[c].buildings)
               /\ tree.chains[c].buildings[1].level = 0
               /\ IndexOf(tree.chains[c].buildings[1].name) \in Qualifying

\* A traversal is under way with the same building queued at two levels
C25_Witness ==
    /\ pc = "while"
    /\ \E i, j \in DOMAIN buildingQueue :
           /\ i < j
           /\ buildingQueue[i].building.name = buildingQueue[j].building.name
           /\ buildingQueue[i].level < buildingQueue[j].level

(* C26 *)

\* C26 (every upstream building is needed): in every returned chain each
\* building of level >= 1 has an output o such that some building of the
\* same chain has an input matching o and is listed in o.consumers.
C26_UpstreamIsNeeded ==
    Returned =>
        \A c \in DOMAIN tree.chains :
            LET bs == tree.chains[c].buildings
            IN \A p \in DOMAIN bs :
                   bs[p].level >= 1 =>
                       \E o \in DOMAIN bs[p].outputs, q \in DOMAIN bs :
                           /\ \E n \in DOMAIN bs[q].inputs :
                                  DifferOnlyInCase(bs[q].inputs[n].resourceName,
                                                   bs[p].outputs[o].resourceName)
                           /\ \E k \in DOMAIN bs[p].outputs[o].consumers :
                                  bs[p].outputs[o].consumers[k] = bs[q].name

\* A chain is returned with an upstream building one of whose outputs lists
\* a consumer of the chain and a consumer outside it
C26_Witness ==
    /\ Returned
    /\ \E c \in DOMAIN tree.chains :
           \E p \in DOMAIN tree.chains[c].buildings :
               LET bs == tree.chains[c].buildings
                   inChain == {bs[q].name : q \in DOMAIN bs}
               IN /\ bs[p].level >= 1
                  /\ \E o \in DOMAIN bs[p].outputs :
                         LET listed == {bs[p].outputs[o].consumers[k] :
                                           k \in DOMAIN bs[p].outputs[o].consumers}
                         IN /\ listed \cap inChain # {}
                            /\ listed \ inChain # {}

(* C27 *)

\* The building at p of the buildings bs of a chain has an output that
\* matches, up to letter case, an input of one of the buildings at qs
ConsumedBy(bs, p, qs) ==
    \E o \in DOMAIN bs[p].outputs, q \in qs :
        \E n \in DOMAIN bs[q].inputs :
            DifferOnlyInCase(bs[q].inputs[n].resourceName,
                             bs[p].outputs[o].resourceName)

\* C27 (level-0 characterisation), as claimed: in every returned chain a
\* building has level 0 if and only if none of its outputs is consumed by
\* any building of that chain, itself included, and the building of level 0
\* is the root chosen by root detection.
C27_LevelZeroUnconsumed ==
    Returned =>
        \A c \in DOMAIN tree.chains :
            LET bs == tree.chains[c].buildings
            IN \A p \in DOMAIN bs :
                   /\ bs[p].level = 0 <=> ~ConsumedBy(bs, p, DOMAIN bs)
                   /\ bs[p].level = 0 =>
                          /\ p = 1
                          /\ IndexOf(bs[p].name) \in Qualifying

\* C27 as amended: in every returned chain a building has level 0 if and
\* only if none of its outputs is consumed by any other building of that
\* chain (a building that consumes its own output may have level 0), and
\* the building of level 0 is the root chosen by root detection.
C27_LevelZeroUnconsumedByOthers ==
    Returned =>
        \A c \in DOMAIN tree.chains :
            LET bs == tree.chains[c].buildings
            IN \A p \in DOMAIN bs :
                   /\ bs[p].level = 0 <=> ~ConsumedBy(bs, p, DOMAIN bs \ {p})
                   /\ bs[p].level = 0 =>
                          /\ p = 1
                          /\ IndexOf(bs[p].name) \in Qualifying

\* A chain is returned whose root consumes its own output and has a supplier
\* upstream
C27_Witness ==
    /\ Returned
    /\ \E c \in DOMAIN tree.chains :
           LET bs == tree.chains[c].buildings
           IN /\ Len(bs) >= 2
              /\ bs[1].level = 0
              /\ ConsumedBy(bs, 1, {1})
              /\ bs[2].level = 1

(* C28 *)

\* C28 (input snapshot is not mutated): no step of generateResourceTree
\* changes the registry list or a building record of it, and within a call
\* the chains built already stay as they are: ratio and position writes
\* touch the ChainBuilding records of the chain being resolved only.
C28_InputNotMutated ==
    [][/\ registry' = registry
       /\ pc \notin {"idle", "done"} =>
              /\ Len(chains') >= Len(chains)
              /\ \A c \in DOMAIN chains : chains'[c] = chains[c]]_vars

\* The ratios of a second chain are resolved, and a building that is in the
\* first chain as well has got another ratio than it has there
C28_Witness ==
    /\ pc = "ratios"
    /\ ratioPending = <<>>
    /\ \E c \in DOMAIN chains :
           \E p \in DOMAIN chains[c].buildings, q \in DOMAIN chainBuildings :
               /\ chains[c].buildings[p].name = chainBuildings[q].name
               /\ chains[c].buildings[p].ratio # chainBuildings[q].ratio

(* C29 *)

\* C29 (chains are closed under producers): for every building of a
\* returned chain and every input of it with sourceType building, the
\* sourceBuilding named is a building of the same chain.
C29_ClosedUnderProducers ==
    Returned =>
        \A c \in DOMAIN tree.chains :
            LET bs == tree.chains[c].buildings
            IN \A p \in DOMAIN bs :
                   \A i \in DOMAIN bs[p].inputs :
                       bs[p].inputs[i].sourceType = "building"
                           => \E q \in DOMAIN bs :
                                  bs[q].name = bs[p].inputs[i].sourceBuilding

\* A chain is returned with a building whose two inputs come from two other
\* buildings
C29_Witness ==
    /\ Returned
    /\ \E c \in DOMAIN tree.chains :
           \E p \in DOMAIN tree.chains[c].buildings :
               LET b == tree.chains[c].buildings[p]
               IN \E i, k \in DOMAIN b.inputs :
                      /\ b.inputs[i].sourceType = "building"
                      /\ b.inputs[k].sourceType = "building"
                      /\ b.inputs[i].sourceBuilding # b.name
                      /\ b.inputs[k].sourceBuilding # b.name
                      /\ b.inputs[i].sourceBuilding # b.inputs[k].sourceBuilding

(* C30 *)

\* No two buildings of a list of chain buildings have the same name
DistinctNames(bs) ==
    \A p, q \in DOMAIN bs : bs[p].name = bs[q].name => p = q

\* C30 (no duplicates within a chain): no building name occurs twice in the
\* buildings of one chain, while it is traced and when it is returned, even
\* when the same producer is queued several times before it is first
\* popped; and no two buildings of a returned chain have the same position.
C30_NoDuplicateInChain ==
    /\ DistinctNames(chainBuildings)
    /\ Returned =>
           \A c \in DOMAIN tree.chains :
               LET bs == tree.chains[c].buildings
               IN /\ DistinctNames(bs)
                  /\ \A p, q \in DOMAIN bs :
                         bs[p].position = bs[q].position => p = q

\* A traversal has expanded a building and holds one producer, not expanded
\* yet, twice in its queue
C30_Witness ==
    /\ pc = "while"
    /\ chainBuildings # <<>>
    /\ \E i, j \in DOMAIN buildingQueue :
           /\ i # j
           /\ buildingQueue[i].building.name = buildingQueue[j].building.name
           /\ buildingQueue[i].building.name \notin chainProcessed

====
